---- MODULE Spec2Model ----
(***************************************************************************)
(* Model of the lock subsystem of jiajia556/tool-box: the locker contract  *)
(* (package locker), the in-process backend (locker/memory) and the remote *)
(* backend (the redisLocker of cache/redis/redis.go).                      *)
(*                                                                         *)
(* Time is a discrete clock `now`; one tick is one clock unit.  Every      *)
(* handle operation is one action, except where the code itself lets other *)
(* goroutines and the clock in: the poll loop of Lock (one action per      *)
(* statement group), the two store round trips of redisLocker.Unlock, and  *)
(* the renewal goroutine.  Each handle is driven by one caller goroutine.  *)
(***************************************************************************)
EXTENDS Integers, FiniteSets, Sequences, TLC

\* ------------------------------------------------------------------ bounds
MaxTime == 4
TTLTicks == 2
TimeoutTicks == 1
PollTicks == 1
RefreshTicks == 1
MaxStale == 1

\* two handles, created by Manager.New for the same key or for a key each
Handles == {1, 2}
Keys == {"job:1", "job:2"}
SameKey == [h \in Handles |-> "job:1"]
OwnKey == [h \in Handles |-> IF h = 1 THEN "job:1" ELSE "job:2"]
\* uuid.New().String(): one distinct token per handle, fixed at creation
Token(h) == h

Backends == {"memory", "redis"}
NoRec == [tok |-> 0, exp |-> 0]
NoOp == [h |-> 0, op |-> "none"]

VARIABLES
    backend,     \* the adapter of the global manager ("none": no manager)
    refreshCfg,  \* Config.RefreshInterval of handle 1 (0 = no renewal)
    keyOf,       \* the key each handle was created for
    now,         \* the clock
    clientUp,    \* redis: globalClient # nil
    mgrMu,       \* redis: RedisManager.mu is held by a goroutine that never returns
    registered,  \* redis: the tokens in RedisManager.locks
    locks,       \* memory: MemoryManager.locks, key -> handle (0 = no entry)
    expireTime,  \* memory: memoryLocker.expireTime
    rdb,         \* redis: the store, key -> [tok, exp] (NoRec = no key)
    locked,      \* redis: redisLocker.locked
    mlocked,     \* memory: memoryLocker.locked
    mmMu,        \* memory: the call that holds MemoryManager.mu, [h, op] (NoOp: free)
    ttlpc,       \* memory: where a TTL call that holds memoryLocker.mu is: "idle",
                 \* "flag" (before its read of locked), "time" (before its read of expireTime)
    muHeld,      \* redis: redisLocker.mu is held by a goroutine that never returns
    hctxDone,    \* redis: redisLocker.ctx is cancelled
    pc,          \* where the handle's caller is
    deadline,    \* Lock: deadline
    wake,        \* Lock: when time.After(PollInterval) fires
    ctxDone,     \* Lock: the caller's ctx is cancelled
    ticker,      \* redis: redisLocker.refreshTicker: "nil", "live", "stopped"
    tickAt,      \* redis: when the live ticker fires next
    stopChan,    \* redis: len(redisLocker.refreshStopChan)
    curTask,     \* redis: renewal goroutines waiting on the current ticker
    staleTask,   \* redis: renewal goroutines waiting on a replaced ticker
    crashed,     \* the process has panicked
    renewing,    \* redis: a Refresh of the renewal goroutine is between its held check
                 \* and its script: "no", "yes", "stale" (the handle was unlocked since)
    last,        \* the operation that returned last, and what it returned
    mres,        \* paired run: what the same call returned on the in-process backend
    winners,     \* per key: handles whose TryLock returned true in the current lease
    kept,        \* the handle acquired, and no Unlock or Close was called on it since
    contended,   \* Lock: the key was held by another handle since the call began
    late,        \* Lock: the clock moved while a step of the call was ready to run
    adapters,    \* package locker: the names in the adapters registry
    once,        \* package locker: the sync.Once of Init has run
    lastName,    \* the adapter name of the last Init or Register call
    initLog      \* what the Init calls made so far have returned

storeVars == <<locks, expireTime, rdb, locked, mlocked>>
mgrVars == <<clientUp, mgrMu, registered, muHeld, hctxDone>>
lockVars == <<pc, deadline, wake, ctxDone>>
renewVars == <<ticker, tickAt, stopChan, curTask, staleTask, crashed, renewing>>
ghostVars == <<winners, kept, contended, late>>
initVars == <<adapters, once, lastName, initLog>>
muVars == <<mmMu, ttlpc>>
vars == <<backend, refreshCfg, keyOf, now, storeVars, mgrVars, lockVars, renewVars, last, mres, ghostVars,
         initVars, muVars>>

\* Locker.Key()
Key(h) == keyOf[h]

\* ------------------------------------------------------------ Config
\* locker.Config as the handles of the model carry it
ConfigTTL == TTLTicks
ConfigTimeout == TimeoutTicks
ConfigPollInterval == PollTicks
\* handle 1 is created WithRefreshInterval(refreshCfg), the others with the default 0
ConfigRefreshInterval(h) == IF h = 1 THEN refreshCfg ELSE 0

\* ------------------------------------------------------------ the store
\* the backing record of key k, whichever backend holds it
Rec(k) ==
    IF backend = "memory"
    THEN IF locks[k] = 0 THEN NoRec
         ELSE [tok |-> Token(locks[k]), exp |-> expireTime[locks[k]]]
    ELSE rdb[k]

\* time.Now().Before(existingLock.expireTime) / the key has not expired
Live(k) == Rec(k) # NoRec /\ now < Rec(k).exp

LiveOther(h) == Live(Key(h)) /\ Rec(Key(h)).tok # Token(h)

\* the handle's own held flag, in the backend that is in use
Held(h) == IF backend = "memory" THEN mlocked[h] ELSE locked[h]

InLock == {"chk", "try", "sleep"}

\* what an operation returned.  seq alternates with every return; dur is the
\* duration TTL returned; over, cont, prompt and canc describe a Lock call: by how
\* much it returned after its deadline, whether the key was held by another handle
\* during the whole call, whether no step of it was delayed, whether its ctx was
\* cancelled before it returned
Ret(op, h, res, dur, over, cont, prompt, canc) ==
    last' = [seq |-> 1 - last.seq, op |-> op, h |-> h, res |-> res, dur |-> dur,
             over |-> over, cont |-> cont, prompt |-> prompt, canc |-> canc]

RetOp(op, h, res) == Ret(op, h, res, 0, 0, FALSE, FALSE, FALSE)

\* the step is the return of operation op of handle h
Returns(op, h) == last'.seq # last.seq /\ last'.op = op /\ last'.h = h

\* a step of a Lock call is ready to run at the current instant
Ready(h) == pc[h] \in {"chk", "try"} \/ (pc[h] = "sleep" /\ now >= wake[h])

\* the observers: acq is the handle whose TryLock returned true in the step
\* (0: none), rel the handles on which the step called Unlock or Close
Observe(acq, rel) ==
    /\ kept' = [h \in Handles |->
            IF h = acq THEN TRUE ELSE IF h \in rel THEN FALSE ELSE kept[h]]
    /\ winners' = [k \in Keys |->
            IF ~Live(k)' THEN {}
            ELSE winners[k] \cup (IF acq # 0 /\ Key(acq) = k THEN {acq} ELSE {})]
    /\ contended' = [h \in Handles |->
            /\ pc'[h] \in InLock
            /\ (pc[h] = "idle" \/ contended[h])
            /\ LiveOther(h)']
    /\ late' = [h \in Handles |->
            /\ pc'[h] \in InLock
            /\ pc[h] \in InLock
            /\ (late[h] \/ (now' > now /\ Ready(h)))]

\* ------------------------------------------------------------ renewal task
\* redisLocker.startRefresh: a new ticker and a new goroutine waiting on it; the
\* goroutines of earlier acquisitions keep waiting on the tickers they read
startRefresh(h) ==
    /\ ticker' = [ticker EXCEPT ![h] = "live"]
    /\ tickAt' = [tickAt EXCEPT ![h] = now + ConfigRefreshInterval(h)]
    /\ staleTask' = [staleTask EXCEPT ![h] = staleTask[h] + curTask[h]]
    /\ curTask' = [curTask EXCEPT ![h] = 1]

\* redisLocker.stopRefresh: stop and clear the ticker, non-blocking send of a stop
stopRefresh(h) ==
    /\ ticker' = [ticker EXCEPT ![h] = "nil"]
    /\ tickAt' = [tickAt EXCEPT ![h] = 0]
    /\ stopChan' = [stopChan EXCEPT ![h] = 1]

\* ------------------------------------------------------------ TryLock
\* memoryLocker.TryLock without the early return on a live entry
MemTryLock_NoLiveCheck(h, res) ==
    /\ res = "true"
    /\ expireTime' = [expireTime EXCEPT ![h] = now + ConfigTTL]
    /\ locks' = [locks EXCEPT ![Key(h)] = h]
    /\ mlocked' = [mlocked EXCEPT ![h] = TRUE]

\* memoryLocker.TryLock, under MemoryManager.mu
MemTryLock(h, res) ==
    LET k == Key(h)
        e == locks[k]
    IN  IF e # 0 /\ now < expireTime[e]
        THEN /\ res = "false"
             /\ UNCHANGED <<locks, expireTime, mlocked>>
        ELSE /\ res = "true"
             /\ expireTime' = [expireTime EXCEPT ![h] = now + ConfigTTL]
             /\ locks' = [locks EXCEPT ![k] = h]
             /\ mlocked' = [mlocked EXCEPT ![h] = TRUE]

\* redisLocker.TryLock writing a token made at acquisition time instead of the
\* token the handle was created with
RedisTryLock_TokenPerAcquisition(h, cancelled, res) ==
    LET k == Key(h)
    IN  IF ~clientUp
        THEN res = "ErrNoClient" /\ UNCHANGED <<rdb, locked, ticker, tickAt, curTask, staleTask>>
        ELSE IF locked[h]
        THEN res = "ErrLockFailed" /\ UNCHANGED <<rdb, locked, ticker, tickAt, curTask, staleTask>>
        ELSE IF cancelled
        THEN res = "ErrCanceled" /\ UNCHANGED <<rdb, locked, ticker, tickAt, curTask, staleTask>>
        ELSE IF rdb[k] # NoRec
        THEN res = "false" /\ UNCHANGED <<rdb, locked, ticker, tickAt, curTask, staleTask>>
        ELSE /\ res = "true"
             /\ rdb' = [rdb EXCEPT ![k] = [tok |-> Token(h) + Cardinality(Handles),
                                           exp |-> now + ConfigTTL]]
             /\ locked' = [locked EXCEPT ![h] = TRUE]
             /\ IF ConfigRefreshInterval(h) > 0
                THEN startRefresh(h)
                ELSE UNCHANGED <<ticker, tickAt, curTask, staleTask>>

\* redisLocker.TryLock; cancelled: the ctx handed to SetNX is done
RedisTryLock(h, cancelled, res) ==
    LET k == Key(h)
    IN  IF ~clientUp
        THEN res = "ErrNoClient" /\ UNCHANGED <<rdb, locked, ticker, tickAt, curTask, staleTask>>
        ELSE IF locked[h]
        THEN res = "ErrLockFailed" /\ UNCHANGED <<rdb, locked, ticker, tickAt, curTask, staleTask>>
        ELSE IF cancelled
        THEN res = "ErrCanceled" /\ UNCHANGED <<rdb, locked, ticker, tickAt, curTask, staleTask>>
        ELSE IF rdb[k] # NoRec
        THEN res = "false" /\ UNCHANGED <<rdb, locked, ticker, tickAt, curTask, staleTask>>
        ELSE /\ res = "true"
             /\ rdb' = [rdb EXCEPT ![k] = [tok |-> Token(h), exp |-> now + ConfigTTL]]
             /\ locked' = [locked EXCEPT ![h] = TRUE]
             /\ IF ConfigRefreshInterval(h) > 0
                THEN startRefresh(h)
                ELSE UNCHANGED <<ticker, tickAt, curTask, staleTask>>

TryLockResults == {"true", "false", "ErrNoClient", "ErrLockFailed", "ErrCanceled"}

\* the TryLock of the chosen backend
TryLockBody(h, cancelled, res) ==
    IF backend = "memory"
    THEN /\ MemTryLock(h, res)
         /\ UNCHANGED <<rdb, locked, ticker, tickAt, curTask, staleTask>>
    ELSE /\ RedisTryLock(h, cancelled, res)
         /\ UNCHANGED <<locks, expireTime, mlocked>>

\* the caller can enter an operation of handle h
CanCall(h) ==
    /\ ~crashed
    /\ pc[h] = "idle"
    /\ ~muHeld[h]

\* a goroutine count stays within the bound of the model
RoomForTask(h) == staleTask[h] + curTask[h] <= MaxStale

TryLock(h) ==
    /\ CanCall(h)
    /\ RoomForTask(h)
    /\ \E res \in TryLockResults :
          /\ TryLockBody(h, FALSE, res)
          /\ RetOp("TryLock", h, res)
          /\ UNCHANGED <<backend, refreshCfg, keyOf, muVars, initVars, mres, now, mgrVars, lockVars, stopChan, crashed, renewing>>
          /\ Observe(IF res = "true" THEN h ELSE 0, {})

\* ------------------------------------------------------------ Unlock
\* memoryLocker.Unlock without the delete(locks, key) of its success path
MemUnlock_KeepsRecord(h, res) ==
    LET k == Key(h)
    IN  IF ~mlocked[h]
        THEN res = "ErrLockNotHeld" /\ UNCHANGED <<locks, mlocked>>
        ELSE IF locks[k] = 0 \/ Token(locks[k]) # Token(h)
        THEN res = "ErrLockNotHeld" /\ UNCHANGED <<locks, mlocked>>
        ELSE /\ res = "nil"
             /\ mlocked' = [mlocked EXCEPT ![h] = FALSE]
             /\ UNCHANGED locks

\* memoryLocker.Unlock, under MemoryManager.mu
MemUnlock(h, res) ==
    LET k == Key(h)
    IN  IF ~mlocked[h]
        THEN res = "ErrLockNotHeld" /\ UNCHANGED <<locks, mlocked>>
        ELSE IF locks[k] = 0 \/ Token(locks[k]) # Token(h)
        THEN res = "ErrLockNotHeld" /\ UNCHANGED <<locks, mlocked>>
        ELSE /\ res = "nil"
             /\ locks' = [locks EXCEPT ![k] = 0]
             /\ mlocked' = [mlocked EXCEPT ![h] = FALSE]

UnlockMemory(h) ==
    /\ backend = "memory"
    /\ CanCall(h)
    /\ \E res \in {"nil", "ErrLockNotHeld"} :
          /\ MemUnlock(h, res)
          /\ RetOp("Unlock", h, res)
    /\ UNCHANGED <<backend, refreshCfg, keyOf, muVars, initVars, mres, now, expireTime, rdb, locked, mgrVars, lockVars, renewVars>>
    /\ Observe(0, {h})

\* a Refresh of the renewal goroutine that is past its held check now belongs to
\* an acquisition that has been released
Released(h) ==
    renewing' = [renewing EXCEPT ![h] = IF @ = "yes" THEN "stale" ELSE @]

\* redisLocker.Unlock up to and including client.Get, holding redisLocker.mu
UnlockGet(h) ==
    LET k == Key(h)
    IN  /\ backend = "redis"
        /\ CanCall(h)
        /\ IF ~clientUp
           THEN /\ RetOp("Unlock", h, "ErrNoClient")
                /\ UNCHANGED <<locked, pc, ticker, tickAt, stopChan, renewing>>
           ELSE IF ~locked[h]
           THEN /\ RetOp("Unlock", h, "ErrLockNotHeld")
                /\ UNCHANGED <<locked, pc, ticker, tickAt, stopChan, renewing>>
           ELSE /\ stopRefresh(h)
                /\ IF rdb[k] = NoRec
                   THEN /\ locked' = [locked EXCEPT ![h] = FALSE]
                        /\ Released(h)
                        /\ RetOp("Unlock", h, "nil")
                        /\ UNCHANGED pc
                   ELSE IF rdb[k].tok # Token(h)
                   THEN /\ RetOp("Unlock", h, "ErrLockNotHeld")
                        /\ UNCHANGED <<locked, pc, renewing>>
                   ELSE /\ pc' = [pc EXCEPT ![h] = "unlock2"]
                        /\ UNCHANGED <<locked, last, renewing>>
        /\ UNCHANGED <<backend, refreshCfg, keyOf, muVars, initVars, mres, now, locks, expireTime, mlocked, rdb, mgrVars,
                       deadline, wake, ctxDone, curTask, staleTask, crashed>>
        /\ Observe(0, {h})

\* redisLocker.Unlock from the compare-and-delete script on, still holding the
\* mutex; the script fails on a client that Manager.Close has closed meanwhile
UnlockDel(h) ==
    LET k == Key(h)
    IN  /\ backend = "redis"
        /\ ~crashed
        /\ pc[h] = "unlock2"
        /\ pc' = [pc EXCEPT ![h] = "idle"]
        /\ IF ~clientUp
           THEN /\ RetOp("Unlock", h, "ErrNoClient")
                /\ UNCHANGED <<rdb, locked, renewing>>
           ELSE IF rdb[k] # NoRec /\ rdb[k].tok = Token(h)
           THEN /\ rdb' = [rdb EXCEPT ![k] = NoRec]
                /\ locked' = [locked EXCEPT ![h] = FALSE]
                /\ Released(h)
                /\ RetOp("Unlock", h, "nil")
           ELSE /\ RetOp("Unlock", h, "ErrLockNotHeld")
                /\ UNCHANGED <<rdb, locked, renewing>>
        /\ UNCHANGED <<backend, refreshCfg, keyOf, muVars, initVars, mres, now, locks, expireTime, mlocked, mgrVars,
                       deadline, wake, ctxDone, ticker, tickAt, stopChan, curTask, staleTask,
                       crashed>>
        /\ Observe(0, {})

\* ------------------------------------------------------------ TTL
\* memoryLocker.TTL: dur is the duration returned
MemTTL(h, res, dur) ==
    IF ~mlocked[h]
    THEN res = "ErrLockNotHeld" /\ dur = 0
    ELSE IF expireTime[h] - now < 0
    THEN res = "ErrLockNotHeld" /\ dur = 0
    ELSE res = "nil" /\ dur = expireTime[h] - now

\* redisLocker.TTL: client.TTL answers for the key, whoever owns it
RedisTTL(h, res, dur) ==
    LET k == Key(h)
        ttl == IF rdb[k] = NoRec THEN -2 ELSE rdb[k].exp - now
    IN  IF ~clientUp
        THEN res = "ErrNoClient" /\ dur = 0
        ELSE IF ~locked[h]
        THEN res = "ErrLockNotHeld" /\ dur = 0
        ELSE IF ttl < 0
        THEN res = "ErrLockNotHeld" /\ dur = 0
        ELSE res = "nil" /\ dur = ttl

Durations == 0..(MaxTime + TTLTicks)

TTL(h) ==
    /\ CanCall(h)
    /\ \E res \in {"nil", "ErrLockNotHeld", "ErrNoClient"}, dur \in Durations :
          /\ IF backend = "memory" THEN MemTTL(h, res, dur) ELSE RedisTTL(h, res, dur)
          /\ Ret("TTL", h, res, dur, 0, FALSE, FALSE, FALSE)
    /\ UNCHANGED <<backend, refreshCfg, keyOf, muVars, initVars, mres, now, storeVars, mgrVars, lockVars, renewVars>>
    /\ Observe(0, {})

\* ------------------------------------------------------------ Refresh
\* memoryLocker.Refresh, under MemoryManager.mu
MemRefresh(h, ttl, res) ==
    LET k == Key(h)
    IN  IF locks[k] = 0 \/ Token(locks[k]) # Token(h)
        THEN res = "ErrLockNotHeld" /\ UNCHANGED expireTime
        ELSE /\ res = "nil"
             /\ expireTime' = [expireTime EXCEPT ![h] = now + ttl]

\* redisLocker.Refresh: the held check, then the compare-and-PEXPIRE script
RedisRefresh(h, ttl, res) ==
    LET k == Key(h)
    IN  IF ~clientUp
        THEN res = "ErrNoClient" /\ UNCHANGED rdb
        ELSE IF ~locked[h]
        THEN res = "ErrLockNotHeld" /\ UNCHANGED rdb
        ELSE IF rdb[k] # NoRec /\ rdb[k].tok = Token(h)
        THEN /\ res = "nil"
             /\ rdb' = [rdb EXCEPT ![k] = [tok |-> Token(h), exp |-> now + ttl]]
        ELSE res = "ErrLockNotHeld" /\ UNCHANGED rdb

RefreshBody(h, ttl, res) ==
    IF backend = "memory"
    THEN MemRefresh(h, ttl, res) /\ UNCHANGED rdb
    ELSE RedisRefresh(h, ttl, res) /\ UNCHANGED expireTime

Refresh(h) ==
    /\ CanCall(h)
    /\ \E res \in {"nil", "ErrLockNotHeld", "ErrNoClient"} :
          /\ RefreshBody(h, ConfigTTL, res)
          /\ RetOp("Refresh", h, res)
    /\ UNCHANGED <<backend, refreshCfg, keyOf, muVars, initVars, mres, now, locks, locked, mlocked, mgrVars, lockVars, renewVars>>
    /\ Observe(0, {})

\* ------------------------------------------------------------ Close
\* memoryLocker.Close, under MemoryManager.mu
\* memoryLocker.Close replacing the whole map, as MemoryManager.Close does
MemClose_DropsMap(h) ==
    IF mlocked[h]
    THEN /\ locks' = [k \in Keys |-> 0]
         /\ mlocked' = [mlocked EXCEPT ![h] = FALSE]
    ELSE UNCHANGED <<locks, mlocked>>

MemClose(h) ==
    IF mlocked[h]
    THEN /\ locks' = [locks EXCEPT ![Key(h)] = 0]
         /\ mlocked' = [mlocked EXCEPT ![h] = FALSE]
    ELSE UNCHANGED <<locks, mlocked>>

CloseMemory(h) ==
    /\ backend = "memory"
    /\ CanCall(h)
    /\ MemClose(h)
    /\ RetOp("Close", h, "nil")
    /\ UNCHANGED <<backend, refreshCfg, keyOf, muVars, initVars, mres, now, expireTime, rdb, locked, mgrVars, lockVars, renewVars>>
    /\ Observe(0, {h})

\* redisLocker.Close, holding redisLocker.mu.  It blocks for ever inside its own
\* Unlock (which locks the mutex Close already holds), or on RedisManager.mu when
\* a Manager.Close holds it
CloseRedis(h) ==
    /\ backend = "redis"
    /\ CanCall(h)
    /\ IF locked[h] /\ clientUp
       THEN /\ muHeld' = [muHeld EXCEPT ![h] = TRUE]
            /\ pc' = [pc EXCEPT ![h] = "hung"]
            /\ UNCHANGED <<hctxDone, ticker, tickAt, stopChan, registered, last>>
       ELSE /\ hctxDone' = [hctxDone EXCEPT ![h] = TRUE]
            /\ stopRefresh(h)
            /\ IF mgrMu
               THEN /\ muHeld' = [muHeld EXCEPT ![h] = TRUE]
                    /\ pc' = [pc EXCEPT ![h] = "hung"]
                    /\ UNCHANGED <<registered, last>>
               ELSE /\ registered' = registered \ {Token(h)}
                    /\ RetOp("Close", h, "nil")
                    /\ UNCHANGED <<muHeld, pc>>
    /\ UNCHANGED <<backend, refreshCfg, keyOf, muVars, initVars, mres, now, storeVars, clientUp, mgrMu,
                   deadline, wake, ctxDone, curTask, staleTask, crashed, renewing>>
    /\ Observe(0, {h})

\* MemoryManager.Close: a fresh map; the handles are not told
ManagerCloseMemory ==
    /\ backend = "memory"
    /\ ~crashed
    /\ locks' = [k \in Keys |-> 0]
    /\ RetOp("ManagerClose", 0, "nil")
    /\ UNCHANGED <<backend, refreshCfg, keyOf, muVars, initVars, mres, now, expireTime, rdb, locked, mlocked, mgrVars, lockVars, renewVars>>
    /\ Observe(0, Handles)

\* RedisManager.Close with no handle left in its map: closes the client
ManagerCloseRedisEmpty ==
    /\ backend = "redis"
    /\ ~crashed
    /\ ~mgrMu
    /\ registered = {}
    /\ clientUp' = FALSE
    /\ RetOp("ManagerClose", 0, "nil")
    /\ UNCHANGED <<backend, refreshCfg, keyOf, muVars, initVars, mres, now, storeVars, mgrMu, registered, muHeld, hctxDone,
                   lockVars, renewVars>>
    /\ Observe(0, Handles)

\* RedisManager.Close, holding RedisManager.mu, closes the first handle l of its
\* map: l.Close blocks in its Unlock, or on RedisManager.mu, and nothing returns
ManagerCloseRedis(l) ==
    /\ backend = "redis"
    /\ ~crashed
    /\ ~mgrMu
    /\ Token(l) \in registered
    /\ pc[l] # "unlock2"
    /\ mgrMu' = TRUE
    /\ muHeld' = [muHeld EXCEPT ![l] = TRUE]
    /\ IF muHeld[l] \/ (locked[l] /\ clientUp)
       THEN UNCHANGED <<hctxDone, ticker, tickAt, stopChan>>
       ELSE /\ hctxDone' = [hctxDone EXCEPT ![l] = TRUE]
            /\ stopRefresh(l)
    /\ UNCHANGED <<backend, refreshCfg, keyOf, muVars, initVars, mres, now, storeVars, clientUp, registered, lockVars,
                   curTask, staleTask, crashed, renewing, last>>
    /\ Observe(0, Handles)

\* ------------------------------------------------------------ Lock
\* Lock: deadline := time.Now().Add(config.Timeout)
LockStart(h) ==
    /\ CanCall(h)
    /\ pc' = [pc EXCEPT ![h] = "chk"]
    /\ deadline' = [deadline EXCEPT ![h] = now + ConfigTimeout]
    /\ UNCHANGED <<backend, refreshCfg, keyOf, muVars, initVars, mres, now, storeVars, mgrVars, wake, ctxDone, renewVars, last>>
    /\ Observe(0, {})

\* the caller cancels the ctx of a running Lock
Cancel(h) ==
    /\ pc[h] \in InLock
    /\ ~ctxDone[h]
    /\ ctxDone' = [ctxDone EXCEPT ![h] = TRUE]
    /\ UNCHANGED <<backend, refreshCfg, keyOf, muVars, initVars, mres, now, storeVars, mgrVars, pc, deadline, wake, renewVars, last>>
    /\ Observe(0, {})

\* Lock returns res
LockRet(h, res) ==
    /\ pc' = [pc EXCEPT ![h] = "idle"]
    /\ deadline' = [deadline EXCEPT ![h] = 0]
    /\ wake' = [wake EXCEPT ![h] = 0]
    /\ ctxDone' = [ctxDone EXCEPT ![h] = FALSE]
    /\ Ret("Lock", h, res, 0, IF now > deadline[h] THEN now - deadline[h] ELSE 0,
           contended[h], ~late[h], ctxDone[h])

\* Lock: the ctx.Done() select and the time.Now().After(deadline) test
LockCheck(h) ==
    /\ ~crashed
    /\ pc[h] = "chk"
    /\ IF ctxDone[h]
       THEN LockRet(h, "ErrCanceled")
       ELSE IF now > deadline[h]
       THEN LockRet(h, "ErrWaitTimeout")
       ELSE /\ pc' = [pc EXCEPT ![h] = "try"]
            /\ UNCHANGED <<deadline, wake, ctxDone, last>>
    /\ UNCHANGED <<backend, refreshCfg, keyOf, muVars, initVars, mres, now, storeVars, mgrVars, renewVars>>
    /\ Observe(0, {})

\* Lock: acquired, err := TryLock(ctx) and what follows it
LockTry(h) ==
    /\ ~crashed
    /\ pc[h] = "try"
    /\ ~muHeld[h]
    /\ RoomForTask(h)
    /\ \E res \in TryLockResults :
          /\ TryLockBody(h, ctxDone[h], res)
          /\ IF res = "true"
             THEN LockRet(h, "nil")
             ELSE IF res = "false"
             THEN /\ pc' = [pc EXCEPT ![h] = "sleep"]
                  /\ wake' = [wake EXCEPT ![h] = now + ConfigPollInterval]
                  /\ UNCHANGED <<deadline, ctxDone, last>>
             ELSE LockRet(h, res)
          /\ UNCHANGED <<backend, refreshCfg, keyOf, muVars, initVars, mres, now, mgrVars, stopChan, crashed, renewing>>
          /\ Observe(IF res = "true" THEN h ELSE 0, {})

\* Lock: the select on ctx.Done() and time.After(PollInterval)
LockWake(h) ==
    /\ ~crashed
    /\ pc[h] = "sleep"
    /\ \/ /\ ctxDone[h]
          /\ LockRet(h, "ErrCanceled")
       \/ /\ now >= wake[h]
          /\ pc' = [pc EXCEPT ![h] = "chk"]
          /\ wake' = [wake EXCEPT ![h] = 0]
          /\ UNCHANGED <<deadline, ctxDone, last>>
    /\ UNCHANGED <<backend, refreshCfg, keyOf, muVars, initVars, mres, now, storeVars, mgrVars, renewVars>>
    /\ Observe(0, {})

\* ------------------------------------------------------------ renewal goroutine
\* the next instant after the clock at which a ticker of period p, due at t, fires
NextTick(t, p) == t + p * (((now - t) \div p) + 1)

\* the ticker of h has fired and its goroutine, waiting in its select, can enter
\* Refresh and take redisLocker.mu
RenewDue(h) ==
    /\ backend = "redis"
    /\ ~crashed
    /\ curTask[h] = 1
    /\ renewing[h] = "no"
    /\ ticker[h] = "live"
    /\ now >= tickAt[h]
    /\ ~muHeld[h]
    /\ pc[h] # "unlock2"

\* a renewal goroutine that returns when the held check of its Refresh fails
RenewTick_StopsOnFailure(h) ==
    /\ RenewDue(h)
    /\ renewing' = [renewing EXCEPT ![h] = IF clientUp /\ locked[h] THEN "yes" ELSE "no"]
    /\ curTask' = [curTask EXCEPT ![h] = IF clientUp /\ locked[h] THEN 1 ELSE 0]
    /\ tickAt' = [tickAt EXCEPT ![h] = NextTick(tickAt[h], ConfigRefreshInterval(h))]
    /\ UNCHANGED <<backend, refreshCfg, keyOf, muVars, initVars, mres, now, storeVars, mgrVars, lockVars,
                   ticker, stopChan, staleTask, crashed, last>>
    /\ Observe(0, {})

\* startRefresh's goroutine, case <-refreshTicker.C, and Refresh(ctx, config.TTL)
\* up to the point where it releases redisLocker.mu after the held check
RenewTick(h) ==
    /\ RenewDue(h)
    /\ renewing' = [renewing EXCEPT ![h] = IF clientUp /\ locked[h] THEN "yes" ELSE "no"]
    /\ tickAt' = [tickAt EXCEPT ![h] = NextTick(tickAt[h], ConfigRefreshInterval(h))]
    /\ UNCHANGED <<backend, refreshCfg, keyOf, muVars, initVars, mres, now, storeVars, mgrVars, lockVars,
                   ticker, stopChan, curTask, staleTask, crashed, last>>
    /\ Observe(0, {})

\* the compare-and-PEXPIRE script of Refresh, run without the handle's mutex:
\* res is what Refresh returns to the goroutine
RefreshScript(h, ttl, res) ==
    LET k == Key(h)
    IN  IF ~clientUp
        THEN res = "ErrNoClient" /\ UNCHANGED rdb
        ELSE IF rdb[k] # NoRec /\ rdb[k].tok = Token(h)
        THEN /\ res = "nil"
             /\ rdb' = [rdb EXCEPT ![k] = [tok |-> Token(h), exp |-> now + ttl]]
        ELSE res = "ErrLockNotHeld" /\ UNCHANGED rdb

\* the rest of the renewal goroutine's Refresh, and its way back into the select,
\* which reads refreshTicker again: when stopRefresh has cleared the field
\* meanwhile the unsynchronised read sees nil (a nil dereference) or the old ticker
RenewExtend(h) ==
    /\ backend = "redis"
    /\ ~crashed
    /\ renewing[h] # "no"
    /\ renewing' = [renewing EXCEPT ![h] = "no"]
    /\ \E res \in {"nil", "ErrLockNotHeld", "ErrNoClient"} : RefreshScript(h, ConfigTTL, res)
    /\ IF ticker[h] = "nil"
       THEN \E seesNil \in BOOLEAN : crashed' = seesNil
       ELSE UNCHANGED crashed
    /\ UNCHANGED <<backend, refreshCfg, keyOf, muVars, initVars, mres, now, locks, expireTime, locked, mlocked,
                   mgrVars, lockVars, ticker, tickAt, stopChan, curTask, staleTask, last>>
    /\ Observe(0, {})

\* a renewal goroutine leaves its loop: refreshTicker.Stop() on the ticker the
\* handle has now, a nil dereference when stopRefresh has cleared it.  raced: the
\* read of the field ran before the concurrent stopRefresh wrote it, so the
\* goroutine stops the ticker that stopRefresh stops as well
RenewExit(h, stale, raced) ==
    /\ IF stale
       THEN /\ staleTask[h] > 0
            /\ staleTask' = [staleTask EXCEPT ![h] = staleTask[h] - 1]
            /\ UNCHANGED curTask
       ELSE /\ curTask[h] > 0
            /\ renewing[h] = "no"
            /\ curTask' = [curTask EXCEPT ![h] = 0]
            /\ UNCHANGED staleTask
    /\ IF raced
       THEN ticker[h] = "nil" /\ UNCHANGED <<ticker, tickAt, crashed>>
       ELSE IF ticker[h] = "nil"
       THEN crashed' = TRUE /\ UNCHANGED <<ticker, tickAt>>
       ELSE /\ ticker' = [ticker EXCEPT ![h] = "stopped"]
            /\ tickAt' = [tickAt EXCEPT ![h] = 0]
            /\ UNCHANGED crashed

\* startRefresh's goroutine, case <-refreshStopChan: the receive is ordered after
\* the write of stopRefresh
RenewStop(h) ==
    /\ backend = "redis"
    /\ ~crashed
    /\ stopChan[h] = 1
    /\ stopChan' = [stopChan EXCEPT ![h] = 0]
    /\ \E stale \in BOOLEAN : RenewExit(h, stale, FALSE)
    /\ UNCHANGED <<backend, refreshCfg, keyOf, muVars, initVars, mres, now, storeVars, mgrVars, lockVars, renewing, last>>
    /\ Observe(0, {})

\* startRefresh's goroutine, case <-ctx.Done(): Close cancels the ctx before its
\* stopRefresh clears the ticker
RenewCtx(h) ==
    /\ backend = "redis"
    /\ ~crashed
    /\ hctxDone[h]
    /\ \E stale \in BOOLEAN, raced \in BOOLEAN : RenewExit(h, stale, raced)
    /\ UNCHANGED <<backend, refreshCfg, keyOf, muVars, initVars, mres, now, storeVars, mgrVars, lockVars, stopChan,
                   renewing, last>>
    /\ Observe(0, {})

\* ------------------------------------------------------------ the clock
\* the store drops a key at its expiry time; a renewal goroutine whose ticker
\* has fired runs before the clock moves on
Expire(db, t) == [k \in Keys |-> IF db[k] # NoRec /\ t >= db[k].exp THEN NoRec ELSE db[k]]

Tick ==
    /\ now < MaxTime
    /\ \A h \in Handles : ~RenewDue(h)
    /\ now' = now + 1
    /\ rdb' = Expire(rdb, now + 1)
    /\ UNCHANGED <<backend, refreshCfg, keyOf, muVars, initVars, mres, locks, expireTime, locked, mlocked, mgrVars, lockVars, renewVars, last>>
    /\ Observe(0, {})

\* ------------------------------------------------------------ mutexes of the in-process backend
\* Several goroutines call one memoryLocker.  TryLock, Unlock, Refresh and Close
\* run under MemoryManager.mu, TTL runs under memoryLocker.mu.

\* the operations of memoryLocker that take MemoryManager.mu
MemOps == {"TryLock", "Unlock", "Refresh", "Close"}

\* ml.manager.mu.Lock() of operation op of handle h
MemBegin(h, op) ==
    /\ backend = "memory"
    /\ ~crashed
    /\ mmMu = NoOp
    /\ mmMu' = [h |-> h, op |-> op]
    /\ UNCHANGED <<backend, refreshCfg, keyOf, ttlpc, initVars, mres, now, storeVars, mgrVars, lockVars,
                   renewVars, last>>
    /\ Observe(0, {})

\* the body of the operation that holds MemoryManager.mu, and its deferred Unlock
MemBody(h, op, res) ==
    IF op = "TryLock" THEN MemTryLock(h, res)
    ELSE IF op = "Unlock" THEN MemUnlock(h, res) /\ UNCHANGED expireTime
    ELSE IF op = "Refresh" THEN MemRefresh(h, ConfigTTL, res) /\ UNCHANGED <<locks, mlocked>>
    ELSE res = "nil" /\ MemClose(h) /\ UNCHANGED expireTime

MemEnd ==
    /\ backend = "memory"
    /\ mmMu # NoOp
    /\ \E res \in {"true", "false", "nil", "ErrLockNotHeld"} :
          /\ MemBody(mmMu.h, mmMu.op, res)
          /\ RetOp(mmMu.op, mmMu.h, res)
          /\ mmMu' = NoOp
          /\ UNCHANGED <<backend, refreshCfg, keyOf, ttlpc, initVars, mres, now, rdb, locked, mgrVars,
                         lockVars, renewVars>>
          /\ Observe(IF res = "true" THEN mmMu.h ELSE 0,
                     IF mmMu.op \in {"Unlock", "Close"} THEN {mmMu.h} ELSE {})

\* memoryLocker.TTL: ml.mu.Lock()
TTLBegin(h) ==
    /\ backend = "memory"
    /\ ~crashed
    /\ ttlpc[h] = "idle"
    /\ ttlpc' = [ttlpc EXCEPT ![h] = "flag"]
    /\ UNCHANGED <<backend, refreshCfg, keyOf, mmMu, initVars, mres, now, storeVars, mgrVars, lockVars,
                   renewVars, last>>
    /\ Observe(0, {})

\* memoryLocker.TTL: if !ml.locked
TTLFlag(h) ==
    /\ backend = "memory"
    /\ ttlpc[h] = "flag"
    /\ IF mlocked[h]
       THEN ttlpc' = [ttlpc EXCEPT ![h] = "time"] /\ UNCHANGED last
       ELSE ttlpc' = [ttlpc EXCEPT ![h] = "idle"] /\ RetOp("TTL", h, "ErrLockNotHeld")
    /\ UNCHANGED <<backend, refreshCfg, keyOf, mmMu, initVars, mres, now, storeVars, mgrVars, lockVars,
                   renewVars>>
    /\ Observe(0, {})

\* memoryLocker.TTL: time.Until(ml.expireTime) and the returns after it
TTLTime(h) ==
    /\ backend = "memory"
    /\ ttlpc[h] = "time"
    /\ ttlpc' = [ttlpc EXCEPT ![h] = "idle"]
    /\ IF expireTime[h] - now < 0
       THEN RetOp("TTL", h, "ErrLockNotHeld")
       ELSE Ret("TTL", h, "nil", expireTime[h] - now, 0, FALSE, FALSE, FALSE)
    /\ UNCHANGED <<backend, refreshCfg, keyOf, mmMu, initVars, mres, now, storeVars, mgrVars, lockVars,
                   renewVars>>
    /\ Observe(0, {})

\* the operation op of handle h that holds MemoryManager.mu writes ml.locked or
\* ml.expireTime on the path it takes
WritesField(h, op) ==
    LET k == Key(h)
        own == locks[k] # 0 /\ Token(locks[k]) = Token(h)
    IN  \/ op = "TryLock" /\ ~(locks[k] # 0 /\ now < expireTime[locks[k]])
        \/ op = "Unlock" /\ mlocked[h] /\ own
        \/ op = "Refresh" /\ own
        \/ op = "Close" /\ mlocked[h]

\* ------------------------------------------------------------ package locker
\* the names Init can be called with: the two adapters of the repository and one
\* that nothing registers
AdapterNames == Backends \cup {"etcd"}

\* Init with the sync.Once consumed before the registry lookup
InitBody_OnceBeforeLookup(name, ok, res) ==
    IF name \notin adapters
    THEN /\ res = "ErrUnknownAdapter"
         /\ once' = TRUE
         /\ UNCHANGED <<backend, clientUp>>
    ELSE IF once
    THEN res = "nil" /\ UNCHANGED <<backend, clientUp, once>>
    ELSE /\ once' = TRUE
         /\ IF name = "memory" \/ ok
            THEN /\ res = "nil"
                 /\ backend' = name
                 /\ clientUp' = IF name = "redis" THEN TRUE ELSE clientUp
            ELSE res = "ErrInitFailed" /\ UNCHANGED <<backend, clientUp>>

\* locker.Init(name, config).  ok: the constructor of the remote backend succeeds
\* (the config has the right type and the ping is answered); NewMemoryManager
\* never fails.  err is the named result: it is set only inside once.Do
\* Init without the sync.Once: every call with a registered name constructs a manager
InitBody_Reconstructs(name, ok, res) ==
    IF name \notin adapters
    THEN res = "ErrUnknownAdapter" /\ UNCHANGED <<backend, clientUp, once>>
    ELSE /\ once' = TRUE
         /\ IF name = "memory" \/ ok
            THEN /\ res = "nil"
                 /\ backend' = name
                 /\ clientUp' = IF name = "redis" THEN TRUE ELSE clientUp
            ELSE res = "ErrInitFailed" /\ UNCHANGED <<backend, clientUp>>

InitBody(name, ok, res) ==
    IF name \notin adapters
    THEN res = "ErrUnknownAdapter" /\ UNCHANGED <<backend, clientUp, once>>
    ELSE IF once
    THEN res = "nil" /\ UNCHANGED <<backend, clientUp, once>>
    ELSE /\ once' = TRUE
         /\ IF name = "memory" \/ ok
            THEN /\ res = "nil"
                 /\ backend' = name
                 /\ clientUp' = IF name = "redis" THEN TRUE ELSE clientUp
            ELSE res = "ErrInitFailed" /\ UNCHANGED <<backend, clientUp>>

InitCall(name, ok) ==
    /\ ~crashed
    /\ \E res \in {"nil", "ErrUnknownAdapter", "ErrInitFailed"} :
          /\ InitBody(name, ok, res)
          /\ RetOp("Init", 0, res)
          /\ initLog' = initLog \cup {res}
    /\ lastName' = name
    /\ UNCHANGED <<refreshCfg, keyOf, muVars, mres, adapters, now, storeVars, mgrMu, registered, muHeld,
                   hctxDone, lockVars, renewVars>>
    /\ Observe(0, {})

\* locker.Register(name, adapter), as the init() of a backend package calls it;
\* a second registration of a name panics
Register(name) ==
    /\ ~crashed
    /\ IF name \in adapters
       THEN crashed' = TRUE /\ UNCHANGED adapters
       ELSE adapters' = adapters \cup {name} /\ UNCHANGED crashed
    /\ lastName' = name
    /\ RetOp("Register", 0, IF name \in adapters THEN "panic" ELSE "nil")
    /\ UNCHANGED <<backend, refreshCfg, keyOf, muVars, mres, once, initLog, now, storeVars, mgrVars, lockVars,
                   ticker, tickAt, stopChan, curTask, staleTask, renewing>>
    /\ Observe(0, {})

\* locker.New(key): nil while there is no global manager
PkgNew ==
    /\ ~crashed
    /\ RetOp("New", 0, IF backend = "none" THEN "nilLocker" ELSE "locker")
    /\ UNCHANGED <<backend, refreshCfg, keyOf, muVars, mres, initVars, now, storeVars, mgrVars, lockVars, renewVars>>
    /\ Observe(0, {})

\* locker.Close() while there is no global manager
PkgCloseNil ==
    /\ ~crashed
    /\ backend = "none"
    /\ RetOp("ManagerClose", 0, "nil")
    /\ UNCHANGED <<backend, refreshCfg, keyOf, muVars, mres, initVars, now, storeVars, mgrVars, lockVars, renewVars>>
    /\ Observe(0, {})

\* ------------------------------------------------------------ package-level TryLock
\* locker.TryLock(ctx, key): lock := New(key); defer lock.Close(); return
\* lock.TryLock(ctx).  The result of lock.TryLock is computed first, the deferred
\* Close runs before the helper returns.  h is the slot of the handle New makes:
\* a handle nobody has used, dropped when the helper returns.

\* slot h can stand for a handle that New has just made
Fresh(h) ==
    /\ ~locked[h]
    /\ ~mlocked[h]
    /\ ~hctxDone[h]
    /\ ticker[h] = "nil"
    /\ Rec(Key(h)).tok # Token(h)

\* the helper on the in-process backend: memoryLocker.TryLock, then
\* memoryLocker.Close, which deletes the record the TryLock has just written
PkgTryLockMemory(h, res) ==
    LET k == Key(h)
        e == locks[k]
    IN  IF e # 0 /\ now < expireTime[e]
        THEN /\ res = "false"
             /\ UNCHANGED <<locks, expireTime, mlocked>>
        ELSE /\ res = "true"
             /\ expireTime' = [expireTime EXCEPT ![h] = now + ConfigTTL]
             /\ locks' = [locks EXCEPT ![k] = 0]
             /\ UNCHANGED mlocked

\* the helper on the remote backend: redisLocker.TryLock, then redisLocker.Close.
\* After a successful SetNX the Close finds rl.locked set and calls Unlock while
\* it holds rl.mu: the helper never returns ("hung")
PkgTryLockRedis(h, res) ==
    LET k == Key(h)
    IN  IF ~clientUp
        THEN res = "ErrNoClient" /\ UNCHANGED <<rdb, locked, muHeld, pc>>
        ELSE IF rdb[k] # NoRec
        THEN res = "false" /\ UNCHANGED <<rdb, locked, muHeld, pc>>
        ELSE /\ res = "hung"
             /\ rdb' = [rdb EXCEPT ![k] = [tok |-> Token(h), exp |-> now + ConfigTTL]]
             /\ locked' = [locked EXCEPT ![h] = TRUE]
             /\ muHeld' = [muHeld EXCEPT ![h] = TRUE]
             /\ pc' = [pc EXCEPT ![h] = "hung"]

PkgTryLockResults == {"true", "false", "ErrNoClient", "ErrNoManager", "hung"}

PkgTryLock(h) ==
    /\ CanCall(h)
    /\ Fresh(h)
    /\ ~mgrMu
    /\ \E res \in PkgTryLockResults :
          /\ IF backend = "none"
             THEN /\ res = "ErrNoManager"
                  /\ UNCHANGED <<storeVars, muHeld, pc>>
             ELSE IF backend = "memory"
             THEN /\ PkgTryLockMemory(h, res)
                  /\ UNCHANGED <<rdb, locked, muHeld, pc>>
             ELSE /\ PkgTryLockRedis(h, res)
                  /\ UNCHANGED <<locks, expireTime, mlocked>>
          /\ IF res = "hung" THEN UNCHANGED last ELSE RetOp("PkgTryLock", h, res)
          /\ UNCHANGED <<backend, refreshCfg, keyOf, muVars, initVars, mres, now, clientUp, mgrMu,
                         registered, hctxDone, deadline, wake, ctxDone, renewVars>>
          /\ Observe(IF res = "hung" THEN h ELSE 0, IF res = "hung" THEN {} ELSE {h})

\* ------------------------------------------------------------ paired run
\* One caller drives a handle of the in-process backend and a handle of the
\* remote backend with the same calls at the same instants.  Each call is one
\* step (nothing runs beside it); last holds what the remote backend returned,
\* mres what the in-process backend returned.

\* redisLocker.Unlock as one step: the GET and the script see the same store
RedisUnlockSeq(h, res) ==
    LET k == Key(h)
    IN  IF ~clientUp
        THEN res = "ErrNoClient" /\ UNCHANGED <<rdb, locked, ticker, tickAt, stopChan>>
        ELSE IF ~locked[h]
        THEN res = "ErrLockNotHeld" /\ UNCHANGED <<rdb, locked, ticker, tickAt, stopChan>>
        ELSE /\ stopRefresh(h)
             /\ IF rdb[k] = NoRec
                THEN /\ res = "nil"
                     /\ locked' = [locked EXCEPT ![h] = FALSE]
                     /\ UNCHANGED rdb
                ELSE IF rdb[k].tok # Token(h)
                THEN res = "ErrLockNotHeld" /\ UNCHANGED <<rdb, locked>>
                ELSE /\ res = "nil"
                     /\ rdb' = [rdb EXCEPT ![k] = NoRec]
                     /\ locked' = [locked EXCEPT ![h] = FALSE]

\* redisLocker.Close as one step; "blocked": the call never returns, inside the
\* Unlock it makes while holding redisLocker.mu
RedisCloseSeq(h, res) ==
    IF locked[h] /\ clientUp
    THEN /\ res = "blocked"
         /\ muHeld' = [muHeld EXCEPT ![h] = TRUE]
         /\ pc' = [pc EXCEPT ![h] = "hung"]
         /\ UNCHANGED <<hctxDone, ticker, tickAt, stopChan, registered>>
    ELSE /\ res = "nil"
         /\ hctxDone' = [hctxDone EXCEPT ![h] = TRUE]
         /\ stopRefresh(h)
         /\ registered' = registered \ {Token(h)}
         /\ UNCHANGED <<muHeld, pc>>

PairTryLock(h) ==
    /\ CanCall(h)
    /\ \E rm \in {"true", "false"}, rr \in TryLockResults :
          /\ MemTryLock(h, rm)
          /\ RedisTryLock(h, FALSE, rr)
          /\ mres' = rm
          /\ RetOp("TryLock", h, rr)
          /\ UNCHANGED <<backend, refreshCfg, keyOf, muVars, initVars, now, mgrVars, lockVars, stopChan, crashed, renewing>>
          /\ Observe(IF rr = "true" THEN h ELSE 0, {})

PairUnlock(h) ==
    /\ CanCall(h)
    /\ \E rm \in {"nil", "ErrLockNotHeld"}, rr \in {"nil", "ErrLockNotHeld", "ErrNoClient"} :
          /\ MemUnlock(h, rm)
          /\ RedisUnlockSeq(h, rr)
          /\ mres' = rm
          /\ RetOp("Unlock", h, rr)
    /\ UNCHANGED <<backend, refreshCfg, keyOf, muVars, initVars, now, expireTime, mgrVars, lockVars,
                   curTask, staleTask, crashed, renewing>>
    /\ Observe(0, {h})

PairTTL(h) ==
    /\ CanCall(h)
    /\ \E rm \in {"nil", "ErrLockNotHeld"}, rr \in {"nil", "ErrLockNotHeld", "ErrNoClient"},
          dm \in Durations, dr \in Durations :
          /\ MemTTL(h, rm, dm)
          /\ RedisTTL(h, rr, dr)
          /\ mres' = rm
          /\ Ret("TTL", h, rr, dr, 0, FALSE, FALSE, FALSE)
    /\ UNCHANGED <<backend, refreshCfg, keyOf, muVars, initVars, now, storeVars, mgrVars, lockVars, renewVars>>
    /\ Observe(0, {})

PairRefresh(h) ==
    /\ CanCall(h)
    /\ \E rm \in {"nil", "ErrLockNotHeld"}, rr \in {"nil", "ErrLockNotHeld", "ErrNoClient"} :
          /\ MemRefresh(h, ConfigTTL, rm)
          /\ RedisRefresh(h, ConfigTTL, rr)
          /\ mres' = rm
          /\ RetOp("Refresh", h, rr)
    /\ UNCHANGED <<backend, refreshCfg, keyOf, muVars, initVars, now, locks, locked, mlocked, mgrVars, lockVars, renewVars>>
    /\ Observe(0, {})

PairClose(h) ==
    /\ CanCall(h)
    /\ MemClose(h)
    /\ mres' = "nil"
    /\ \E rr \in {"nil", "blocked"} :
          /\ RedisCloseSeq(h, rr)
          /\ RetOp("Close", h, rr)
    /\ UNCHANGED <<backend, refreshCfg, keyOf, muVars, initVars, now, expireTime, rdb, locked, clientUp, mgrMu,
                   deadline, wake, ctxDone, curTask, staleTask, crashed, renewing>>
    /\ Observe(0, {h})

\* ------------------------------------------------------------ specification
\* the state after locker.Init(adapter) and Manager.New for every handle
Init ==
    /\ backend \in Backends
    /\ refreshCfg \in {0, RefreshTicks, ConfigTTL}
    /\ keyOf \in {SameKey, OwnKey}
    /\ now = 0
    /\ clientUp = TRUE
    /\ mgrMu = FALSE
    /\ registered = IF backend = "redis" THEN {Token(h) : h \in Handles} ELSE {}
    /\ locks = [k \in Keys |-> 0]
    /\ expireTime = [h \in Handles |-> 0]
    /\ rdb = [k \in Keys |-> NoRec]
    /\ locked = [h \in Handles |-> FALSE]
    /\ mlocked = [h \in Handles |-> FALSE]
    /\ mres = "none"
    /\ muHeld = [h \in Handles |-> FALSE]
    /\ hctxDone = [h \in Handles |-> FALSE]
    /\ pc = [h \in Handles |-> "idle"]
    /\ deadline = [h \in Handles |-> 0]
    /\ wake = [h \in Handles |-> 0]
    /\ ctxDone = [h \in Handles |-> FALSE]
    /\ ticker = [h \in Handles |-> "nil"]
    /\ tickAt = [h \in Handles |-> 0]
    /\ stopChan = [h \in Handles |-> 0]
    /\ curTask = [h \in Handles |-> 0]
    /\ staleTask = [h \in Handles |-> 0]
    /\ crashed = FALSE
    /\ mmMu = NoOp
    /\ ttlpc = [h \in Handles |-> "idle"]
    /\ renewing = [h \in Handles |-> "no"]
    /\ last = [seq |-> 0, op |-> "none", h |-> 0, res |-> "nil", dur |-> 0,
               over |-> 0, cont |-> FALSE, prompt |-> FALSE, canc |-> FALSE]
    /\ winners = [k \in Keys |-> {}]
    /\ kept = [h \in Handles |-> FALSE]
    /\ contended = [h \in Handles |-> FALSE]
    /\ late = [h \in Handles |-> FALSE]
    /\ adapters = Backends
    /\ once = TRUE
    /\ lastName = backend
    /\ initLog = {"nil"}

\* the handle operations, the manager's Close and the clock
Next ==
    \/ \E h \in Handles : TryLock(h)
    \/ \E h \in Handles : UnlockMemory(h)
    \/ \E h \in Handles : UnlockGet(h)
    \/ \E h \in Handles : UnlockDel(h)
    \/ \E h \in Handles : TTL(h)
    \/ \E h \in Handles : Refresh(h)
    \/ \E h \in Handles : CloseMemory(h)
    \/ \E h \in Handles : CloseRedis(h)
    \/ ManagerCloseMemory
    \/ ManagerCloseRedisEmpty
    \/ \E l \in Handles : ManagerCloseRedis(l)
    \/ Tick

\* the same with the renewal goroutines of the remote backend
NextRenew ==
    \/ Next
    \/ \E h \in Handles : RenewTick(h)
    \/ \E h \in Handles : RenewExtend(h)
    \/ \E h \in Handles : RenewStop(h)
    \/ \E h \in Handles : RenewCtx(h)

\* callers in Lock and in TryLock, and the clock
NextLock ==
    \/ \E h \in Handles : TryLock(h)
    \/ \E h \in Handles : LockStart(h)
    \/ \E h \in Handles : Cancel(h)
    \/ \E h \in Handles : LockCheck(h)
    \/ \E h \in Handles : LockTry(h)
    \/ \E h \in Handles : LockWake(h)
    \/ Tick

\* the calls of the paired run, and the clock
NextPair ==
    \/ \E h \in Handles : PairTryLock(h)
    \/ \E h \in Handles : PairUnlock(h)
    \/ \E h \in Handles : PairTTL(h)
    \/ \E h \in Handles : PairRefresh(h)
    \/ \E h \in Handles : PairClose(h)
    \/ Tick

\* goroutines sharing the handles of the in-process backend, and the clock
NextRace ==
    \/ \E h \in Handles, op \in MemOps : MemBegin(h, op)
    \/ MemEnd
    \/ \E h \in Handles : TTLBegin(h)
    \/ \E h \in Handles : TTLFlag(h)
    \/ \E h \in Handles : TTLTime(h)
    \/ Tick

\* callers of the package-level Init and TryLock beside callers that keep their
\* handles, after the global manager has been constructed
NextHelper ==
    \/ \E name \in AdapterNames, ok \in BOOLEAN : InitCall(name, ok)
    \/ \E h \in Handles : PkgTryLock(h)
    \/ \E h \in Handles : TryLock(h)
    \/ \E h \in Handles : UnlockMemory(h)
    \/ \E h \in Handles : UnlockGet(h)
    \/ \E h \in Handles : UnlockDel(h)
    \/ Tick

\* every operation of a handle, and the clock; the caller of handle 1 also uses
\* the blocking Lock
NextKeys ==
    \/ \E h \in Handles : TryLock(h)
    \/ \E h \in {1} : LockStart(h)
    \/ \E h \in {1} : LockCheck(h)
    \/ \E h \in {1} : LockTry(h)
    \/ \E h \in {1} : LockWake(h)
    \/ \E h \in Handles : UnlockMemory(h)
    \/ \E h \in Handles : UnlockGet(h)
    \/ \E h \in Handles : UnlockDel(h)
    \/ \E h \in Handles : TTL(h)
    \/ \E h \in Handles : Refresh(h)
    \/ \E h \in Handles : CloseMemory(h)
    \/ \E h \in Handles : CloseRedis(h)
    \/ Tick

\* package locker before and after Init, with no handle created yet
NextInit ==
    \/ \E name \in Backends : Register(name)
    \/ \E name \in AdapterNames, ok \in BOOLEAN : InitCall(name, ok)
    \/ PkgNew
    \/ PkgCloseNil
    \/ ManagerCloseMemory
    \/ ManagerCloseRedisEmpty

\* the process at start: nothing registered, no manager, no client, no handle
InitBoot ==
    /\ backend = "none"
    /\ refreshCfg = 0
    /\ keyOf = SameKey
    /\ now = 0
    /\ clientUp = FALSE
    /\ mgrMu = FALSE
    /\ registered = {}
    /\ locks = [k \in Keys |-> 0]
    /\ expireTime = [h \in Handles |-> 0]
    /\ rdb = [k \in Keys |-> NoRec]
    /\ locked = [h \in Handles |-> FALSE]
    /\ mlocked = [h \in Handles |-> FALSE]
    /\ mres = "none"
    /\ muHeld = [h \in Handles |-> FALSE]
    /\ hctxDone = [h \in Handles |-> FALSE]
    /\ pc = [h \in Handles |-> "idle"]
    /\ deadline = [h \in Handles |-> 0]
    /\ wake = [h \in Handles |-> 0]
    /\ ctxDone = [h \in Handles |-> FALSE]
    /\ ticker = [h \in Handles |-> "nil"]
    /\ tickAt = [h \in Handles |-> 0]
    /\ stopChan = [h \in Handles |-> 0]
    /\ curTask = [h \in Handles |-> 0]
    /\ staleTask = [h \in Handles |-> 0]
    /\ crashed = FALSE
    /\ mmMu = NoOp
    /\ ttlpc = [h \in Handles |-> "idle"]
    /\ renewing = [h \in Handles |-> "no"]
    /\ last = [seq |-> 0, op |-> "none", h |-> 0, res |-> "nil", dur |-> 0,
               over |-> 0, cont |-> FALSE, prompt |-> FALSE, canc |-> FALSE]
    /\ winners = [k \in Keys |-> {}]
    /\ kept = [h \in Handles |-> FALSE]
    /\ contended = [h \in Handles |-> FALSE]
    /\ late = [h \in Handles |-> FALSE]
    /\ adapters = {}
    /\ once = FALSE
    /\ lastName = "none"
    /\ initLog = {}

\* every handle created with the default RefreshInterval 0
InitPlain == Init /\ refreshCfg = 0 /\ keyOf = SameKey

\* handle 1 created WithRefreshInterval(RefreshTicks), 0 < RefreshTicks < TTLTicks
InitRenew == Init /\ refreshCfg = RefreshTicks /\ keyOf = SameKey

Spec == InitPlain /\ [][Next]_vars

SpecRenew == InitRenew /\ [][NextRenew]_vars

\* handle 1 created WithRefreshInterval(TTL): Manager.New takes any option values
InitInvalid == Init /\ refreshCfg = ConfigTTL /\ keyOf = SameKey

SpecLock == InitPlain /\ [][NextLock]_vars

SpecConfig == InitInvalid /\ [][NextRenew]_vars

\* both backends side by side, the observers on the remote one, RefreshInterval 0
InitPair == InitPlain /\ backend = "redis"

SpecPair == InitPair /\ [][NextPair]_vars

SpecInit == InitBoot /\ [][NextInit]_vars

InitRace == InitPlain /\ backend = "memory"

SpecRace == InitRace /\ [][NextRace]_vars

SpecHelper == InitPlain /\ [][NextHelper]_vars

\* the two handles created for two different keys, RefreshInterval 0
InitKeys == Init /\ refreshCfg = 0 /\ keyOf = OwnKey

SpecKeys == InitKeys /\ [][NextKeys]_vars

\* ------------------------------------------------------------ properties
HandleOps == {"TryLock", "Unlock", "Refresh", "TTL", "Close"}

\* C1: mutual exclusion of acquisition.  Of the TryLock calls made on a key while
\* no Unlock, Close or expiry ends the lease, at most one returns true.
C1_MutualExclusion ==
    \A k \in Keys : Cardinality(winners[k]) <= 1

\* a TryLock of another handle has just returned false against a live lease
C1_Witness ==
    /\ last.op = "TryLock"
    /\ last.res = "false"
    /\ last.h \notin winners[Key(last.h)]
    /\ winners[Key(last.h)] # {}
    /\ LiveOther(last.h)

\* C2: ownership by token.  No operation of a handle removes or changes a live
\* backing record whose token is not the handle's token.
C2_OwnershipByToken ==
    [][\A h \in Handles : \A op \in HandleOps :
          (Returns(op, h) /\ LiveOther(h)) => Rec(Key(h))' = Rec(Key(h))]_vars

\* C3: expiry takeover.  When a handle's lease has run out unreleased (it
\* acquired, and was neither unlocked nor closed) and the backend is up, a
\* TryLock of a different handle returns true and the record then carries that
\* handle's token and a fresh expiry.
C3_ExpiryTakeover ==
    [][\A h \in Handles :
          (/\ Returns("TryLock", h)
           /\ ~Live(Key(h))
           /\ backend = "redis" => clientUp
           /\ \E g \in Handles \ {h} : Held(g) /\ kept[g])
          => (/\ last'.res = "true"
              /\ Rec(Key(h))' = [tok |-> Token(h), exp |-> now + ConfigTTL])]_vars

\* C4: stale-owner rejection.  Once the lease of a handle has expired (the handle
\* acquired, and was neither unlocked nor closed) and the key is held under
\* another token, its Unlock, Refresh and TTL return ErrLockNotHeld.
C4_StaleOwnerRejected ==
    [][\A h \in Handles : \A op \in {"Unlock", "Refresh", "TTL"} :
          (Returns(op, h) /\ Held(h) /\ kept[h] /\ LiveOther(h))
          => last'.res = "ErrLockNotHeld"]_vars

\* C5 as claimed: Unlock on a handle that is not held returns ErrLockNotHeld and
\* changes no record; a second Unlock straight after a successful one returns
\* ErrLockNotHeld and leaves no record for the key.
C5_IdempotentUnlock ==
    [][\A h \in Handles :
          /\ (Returns("Unlock", h) /\ ~Held(h))
             => (last'.res = "ErrLockNotHeld" /\ Rec(Key(h))' = Rec(Key(h)))
          /\ (Returns("Unlock", h) /\ last.op = "Unlock" /\ last.h = h /\ last.res = "nil")
             => (last'.res = "ErrLockNotHeld" /\ Rec(Key(h))' = NoRec)]_vars

\* C5 as amended: the same, except that on the remote backend an Unlock made
\* after Manager.Close has closed the client returns the client error instead of
\* ErrLockNotHeld (still changing no record).
C5_IdempotentUnlockWhileClientUp ==
    [][\A h \in Handles :
          /\ (Returns("Unlock", h) /\ ~Held(h))
             => (/\ last'.res = IF clientUp THEN "ErrLockNotHeld" ELSE "ErrNoClient"
                 /\ Rec(Key(h))' = Rec(Key(h)))
          /\ (Returns("Unlock", h) /\ last.op = "Unlock" /\ last.h = h /\ last.res = "nil")
             => (last'.res = "ErrLockNotHeld" /\ Rec(Key(h))' = NoRec)]_vars

\* an Unlock has returned ErrLockNotHeld on a handle that had acquired the key and
\* gave it up before its lease ran out; no record is left
C5_Witness ==
    /\ last.op = "Unlock"
    /\ last.res = "ErrLockNotHeld"
    /\ ~Held(last.h)
    /\ backend = "memory"
    /\ now < expireTime[last.h]
    /\ Rec(Key(last.h)) = NoRec

\* C6: renewal keeps the lease alive.  A handle created with 0 < RefreshInterval
\* < TTL that has acquired the key and was not unlocked or closed since still owns
\* a live record (so a competing TryLock fails and its TTL is positive).
C6_RenewalKeepsLease ==
    \A h \in Handles :
        (kept[h] /\ ConfigRefreshInterval(h) > 0 /\ ConfigRefreshInterval(h) < ConfigTTL)
        => (Live(Key(h)) /\ Rec(Key(h)).tok = Token(h))

\* C7: blocking bound.  A Lock on a key held by another handle during the whole
\* call returns ErrWaitTimeout, no later than one PollInterval after its deadline
\* when none of its steps is delayed.
C7_BlockingBound ==
    (last.op = "Lock" /\ last.cont /\ ~last.canc)
    => (/\ last.res = "ErrWaitTimeout"
        /\ last.prompt => last.over <= ConfigPollInterval)

\* C8: Lock never reports success after its deadline.
C8_NoSuccessAfterDeadline ==
    (last.op = "Lock" /\ last.res = "nil") => last.over = 0

\* C9: cancellation of Lock.  A Lock whose ctx was cancelled before it returned
\* returns ctx's error, never nil.
C9_CancelledLockFails ==
    (last.op = "Lock" /\ last.canc) => last.res = "ErrCanceled"

\* C10: a TryLock made while the key has a live record, of any owner, returns
\* (false, nil) and leaves the handle's state and the record unchanged.
C10_FailedTryLockIsNoError ==
    [][\A h \in Handles :
          (Returns("TryLock", h) /\ Live(Key(h)))
          => (/\ last'.res = "false"
              /\ \A g \in Handles : Held(g)' = Held(g)
              /\ Rec(Key(h))' = Rec(Key(h)))]_vars

\* the handle's own record is live
LiveOwn(h) == Live(Key(h)) /\ Rec(Key(h)).tok = Token(h)

\* the backend can be reached: always in process, on the remote backend while
\* the client is not closed
BackendUp == backend = "redis" => clientUp

\* C11: Unlock after a lost lease.  When the lease of a held handle (it acquired,
\* and was neither unlocked nor closed) has run out, so that no live record with
\* its token exists, its Unlock returns ErrLockNotHeld.
C11_UnlockAfterLostLease ==
    [][\A h \in Handles :
          (Returns("Unlock", h) /\ Held(h) /\ kept[h] /\ ~LiveOwn(h) /\ BackendUp)
          => last'.res = "ErrLockNotHeld"]_vars

\* C12: an Unlock that returns ErrLockNotHeld because the live record of the key
\* carries another token leaves the handle Idle: its held flag is false.
C12_RejectedUnlockLeavesIdle ==
    [][\A h \in Handles :
          (Returns("Unlock", h) /\ LiveOther(h) /\ last'.res = "ErrLockNotHeld")
          => ~Held(h)']_vars

\* C13: Refresh succeeds exactly when the handle is held and a live record with
\* its token exists, and then sets the expiry of that record to now + ttl; in
\* every other case it returns ErrLockNotHeld and changes no record.
C13_RefreshOnlyLiveOwn ==
    [][\A h \in Handles :
          (Returns("Refresh", h) /\ BackendUp)
          => IF Held(h) /\ LiveOwn(h)
             THEN /\ last'.res = "nil"
                  /\ Rec(Key(h))' = [tok |-> Token(h), exp |-> now + ConfigTTL]
             ELSE /\ last'.res = "ErrLockNotHeld"
                  /\ Rec(Key(h))' = Rec(Key(h))]_vars

\* C14: TTL agrees with lease liveness.  TTL returns a duration without error
\* only at an instant at which the key has a live record, that is one a competing
\* TryLock would not treat as expired or absent.
C14_TTLAgreesWithLiveness ==
    [][\A h \in Handles :
          (Returns("TTL", h) /\ last'.res = "nil") => Live(Key(h))]_vars

\* C15: Close always returns.  No caller of Close on a handle is ever blocked for
\* good ("hung": it waits on a mutex whose holder never releases it).
C15_CloseReturns ==
    \A h \in Handles : pc[h] # "hung"

\* C16: Closed is terminal.  A TryLock made on a handle straight after its Close
\* has returned does not return true and creates no record.
C16_ClosedIsTerminal ==
    [][\A h \in Handles :
          (Returns("TryLock", h) /\ last.op = "Close" /\ last.h = h)
          => (last'.res # "true" /\ Rec(Key(h))' = Rec(Key(h)))]_vars

\* C17: token stability.  The token of a handle is the one it was created with
\* (Token(h), which no operation changes), and every record a handle creates, at
\* its first acquisition and at every reacquisition, carries exactly that token:
\* a step that puts a new token on the record of a key is a successful TryLock of
\* the handle whose token it is.
C17_TokenStability ==
    [][\A k \in Keys :
          (Rec(k)' # NoRec /\ Rec(k)'.tok # Rec(k).tok)
          => \E h \in Handles :
                /\ Returns("TryLock", h)
                /\ last'.res = "true"
                /\ Key(h) = k
                /\ Rec(k)'.tok = Token(h)]_vars

\* a handle has acquired again after an Unlock of its earlier acquisition (its
\* renewal was stopped, its ctx is not cancelled), and the record carries its token
C17_Witness ==
    /\ backend = "redis"
    /\ last.op = "TryLock"
    /\ last.res = "true"
    /\ pc[last.h] = "idle"
    /\ stopChan[last.h] = 1
    /\ ~hctxDone[last.h]
    /\ Rec(Key(last.h)).tok = Token(last.h)

\* C18: backend interchangeability.  In the paired run every call returns the
\* same outcome on the in-process backend and on the remote backend.
C18_BackendsAgree ==
    last.op \in HandleOps => mres = last.res

\* the configuration of handle h breaks the rule TTL > 0 and, when
\* RefreshInterval > 0, RefreshInterval < TTL
InvalidConfig(h) ==
    \/ ConfigTTL <= 0
    \/ (ConfigRefreshInterval(h) > 0 /\ ConfigRefreshInterval(h) >= ConfigTTL)

\* C19: configuration validity.  No handle that carries an invalid configuration
\* ever acquires: it is never held and no record carries its token.
C19_InvalidConfigNeverAcquires ==
    \A h \in Handles :
        InvalidConfig(h) => (~Held(h) /\ Rec(Key(h)).tok # Token(h))

\* C20: Manager.Close terminates.  The manager's Close is never blocked for good
\* while it holds the manager's mutex.
C20_ManagerCloseReturns ==
    ~mgrMu

\* C21: an Init with an unregistered adapter name returns an error and has no
\* effect: no manager, the sync.Once not consumed, registry and client unchanged;
\* and an Init with the registered in-process adapter made while the sync.Once is
\* not consumed constructs the manager.
C21_UnknownAdapterHasNoEffect ==
    [][Returns("Init", 0)
       => /\ lastName' \notin adapters
             => /\ last'.res = "ErrUnknownAdapter"
                /\ UNCHANGED <<backend, once, clientUp, adapters>>
          /\ (lastName' = "memory" /\ "memory" \in adapters /\ ~once)
             => (last'.res = "nil" /\ backend' = "memory")]_vars

\* an Init with a registered name has constructed the manager after an earlier
\* Init was refused for an unregistered name
C21_Witness ==
    /\ "ErrUnknownAdapter" \in initLog
    /\ last.op = "Init"
    /\ last.res = "nil"
    /\ backend = lastName
    /\ backend \in Backends

\* C22: a failed initialisation stays visible.  Init never returns nil while
\* there is no global manager.
C22_InitNilMeansManager ==
    (last.op = "Init" /\ last.res = "nil") => backend # "none"


\* C23: for every key, a backing record exists exactly when some handle of the
\* key has its held flag set
C23_RecordIffHeld ==
    \A k \in Keys :
        (Rec(k) # NoRec) <=> (\E h \in Handles : Key(h) = k /\ Held(h))

\* C24: a stop of the renewal task never makes the renewal goroutine use a
\* ticker that the stop has cleared: the process never panics
C24_StopNeverPanics ==
    ~crashed

\* a renewal task of h is running and its ticker will fire
Renewed(h) ==
    /\ curTask[h] = 1
    /\ ticker[h] = "live"

\* C25: in the remote backend, whenever a handle with RefreshInterval > 0 is
\* Held and at rest, its renewal task is running and will refresh at the next tick
C25_HeldIsRenewed ==
    \A h \in Handles :
        (/\ backend = "redis"
         /\ ConfigRefreshInterval(h) > 0
         /\ locked[h]
         /\ pc[h] = "idle"
         /\ ~muHeld[h]
         /\ ~hctxDone[h]
         /\ ~crashed)
        => Renewed(h)

\* the script of a Refresh of h that is in flight returns an error or 0
ScriptFails(h) ==
    \/ ~clientUp
    \/ rdb[Key(h)] = NoRec
    \/ rdb[Key(h)].tok # Token(h)

\* this step is a renewal tick of h whose Refresh fails: at its held check, or
\* in its script
FailedRenewal(h) ==
    \/ /\ RenewDue(h)
       /\ ~(clientUp /\ locked[h])
       /\ last' = last
       /\ now' = now
       /\ tickAt'[h] > tickAt[h]
    \/ /\ renewing[h] # "no"
       /\ renewing'[h] = "no"
       /\ ticker[h] = "live"
       /\ ScriptFails(h)

\* C26: a renewal tick whose Refresh fails leaves the renewal task running with
\* a live ticker that has a tick pending or ahead, and a renewal task ends only after a stop signal of
\* Unlock or Close or the cancellation of the handle's context
C26_FailedRenewalKeepsTask ==
    [][\A h \in Handles :
          /\ FailedRenewal(h)
             => /\ curTask'[h] = 1
                /\ ticker'[h] = "live"
                /\ tickAt'[h] > 0
                /\ ~crashed'
          /\ (curTask[h] = 1 /\ curTask'[h] = 0 /\ ~crashed')
             => (stopChan[h] = 1 \/ hctxDone[h])]_vars

\* a renewal of handle 1 has failed on a record that expired while the Refresh
\* was in flight, and the task is still running with its next tick ahead
C26_Witness ==
    /\ backend = "redis"
    /\ clientUp
    /\ locked[1]
    /\ rdb[Key(1)] = NoRec
    /\ renewing[1] = "no"
    /\ curTask[1] = 1
    /\ ticker[1] = "live"
    /\ tickAt[1] > now
    /\ stopChan[1] = 0
    /\ ~hctxDone[1]
    /\ ~crashed

\* C27: the held check and the extend of a Refresh of a handle are one critical
\* section: while a Refresh of the renewal task is between the two, no Unlock of
\* the handle runs
C27_RefreshExcludesUnlock ==
    [][\A h \in Handles :
          renewing[h] # "no"
          => /\ ~Returns("Unlock", h)
             /\ pc'[h] # "unlock2"]_vars

\* C28: once Unlock has returned nil the key has no record, and no renewal tick
\* of the released acquisition changes the store afterwards
C28_UnlockEndsRenewal ==
    [][\A h \in Handles :
          /\ (Returns("Unlock", h) /\ last'.res = "nil") => Rec(Key(h))' = NoRec
          /\ (renewing[h] = "stale" /\ renewing'[h] = "no") => rdb' = rdb]_vars

\* C29: when the acquire attempt of a Lock returns an error, Lock returns that
\* error at once, without a further attempt, and the handle is not Held
C29_LockAbortsOnError ==
    [][\A h \in Handles :
          (pc[h] = "try" /\ Returns("Lock", h) /\ last'.res # "nil")
          => /\ pc'[h] = "idle"
             /\ last'.res \in TryLockResults \ {"true", "false"}
             /\ ~Held(h)']_vars

\* C30: when Close of a handle has returned, the handle is not Held, its renewal
\* ticker is stopped, and its manager's bookkeeping no longer refers to it
C30_ClosePostcondition ==
    [][\A h \in Handles :
          Returns("Close", h)
          => /\ ~Held(h)'
             /\ ticker'[h] # "live"
             /\ backend = "redis" => Token(h) \notin registered'
             /\ backend = "memory" => locks'[Key(h)] # h]_vars

\* C31: every read and write of a handle's held flag and expiry time is made
\* under one common mutex: while a TTL call is inside its critical section on a
\* handle, no operation that writes the handle's fields is inside its own
C31_OneMutexGuardsHandle ==
    \A h \in Handles :
        ~(ttlpc[h] # "idle" /\ mmMu.h = h /\ WritesField(h, mmMu.op))

\* C32: whenever the package-level TryLock returns (true, nil), the key is held
\* once the call has returned: a live record of the helper's handle exists
C32_HelperTryLockHolds ==
    [][\A h \in Handles :
          (Returns("PkgTryLock", h) /\ last'.res = "true")
          => /\ Live(Key(h))'
             /\ Rec(Key(h))'.tok = Token(h)]_vars

\* C33: once the global manager exists, every later Init with a registered
\* adapter name returns nil and leaves the manager, its client, its bookkeeping
\* and every lock record and held flag unchanged
C33_InitOnlyOnce ==
    [][(Returns("Init", 0) /\ backend # "none" /\ lastName' \in adapters)
       => /\ last'.res = "nil"
          /\ UNCHANGED <<backend, once, clientUp, mgrMu, registered, storeVars>>]_vars

\* a later Init that named the other adapter has returned nil while a handle of
\* the manager holds a live lease
C33_Witness ==
    /\ last.op = "Init"
    /\ last.res = "nil"
    /\ backend \in Backends
    /\ lastName \in Backends \ {backend}
    /\ \E h \in Handles : Held(h) /\ Live(Key(h)) /\ Rec(Key(h)).tok = Token(h)

\* the fields of handle g
HandleState(g) ==
    <<locked[g], mlocked[g], expireTime[g], pc[g], muHeld[g], hctxDone[g], ticker[g],
      tickAt[g], stopChan[g], deadline[g], wake[g]>>

\* the step belongs to an operation called on handle h
Acts(h) ==
    \/ last'.seq # last.seq /\ last'.h = h
    \/ pc'[h] # pc[h]

\* C34: a step of TryLock, Lock, Unlock, Refresh, TTL or Close on a handle for
\* key K leaves the record of every other key, and every handle of another key,
\* as they were
C34_KeysIndependent ==
    [][\A h \in Handles :
          Acts(h)
          => /\ \A k \in Keys \ {Key(h)} : locks'[k] = locks[k] /\ rdb'[k] = rdb[k]
             /\ \A g \in Handles :
                   Key(g) # Key(h) => HandleState(g)' = HandleState(g)]_vars

\* an Unlock of handle 1 has released its key while handle 2 holds a live lease
\* on another key
C34_Witness ==
    /\ Key(1) # Key(2)
    /\ last.op = "Unlock"
    /\ last.h = 1
    /\ last.res = "nil"
    /\ Rec(Key(1)) = NoRec
    /\ Held(2)
    /\ Live(Key(2))
    /\ Rec(Key(2)).tok = Token(2)
====
